---- MODULE Spec2Model ----
(***************************************************************************)
(* A model of wofa/WeightFiniteAutomata.py: the Matrix class (the cache of *)
(* powers of the one-step transition matrix) and the weight engine         *)
(* (weight, weight_diff, __explicit_solution, __weight_with_matrix).       *)
(*                                                                         *)
(* Numbers: the Python code computes in binary floating point.  The model  *)
(* computes in exact rational arithmetic (a pair <<n, d>> in lowest terms  *)
(* with d > 0), so a value of the model is the real number the code        *)
(* approximates.  Python's exceptions are modelled as result kinds:        *)
(* "TypeError" (subscripting None), "ZeroDivisionError" (a division by     *)
(* zero) and "LinAlgError" (numpy.linalg.solve on a singular matrix).      *)
(***************************************************************************)
EXTENDS Integers, Sequences, FiniteSets, TLC

VARIABLES fa, matrices, ret, args, wres

vars == <<fa, matrices, ret, args, wres>>

(* ------------------------------ bounds --------------------------------- *)

\* The largest number of states of an automaton.
MaxStates == 2
\* The largest alphabet.
MaxLetters == 2
\* The largest transition table (states times letters) of an automaton.
MaxTable == 4
\* The largest word length a client asks a Matrix instance for.
MaxLen == 3
\* The largest threshold eta passed to weight.
MaxEta == 3

(* ------------------------- rational arithmetic ------------------------- *)

Abs(x) == IF x < 0 THEN -x ELSE x

RECURSIVE GCD(_, _)
GCD(a, b) == IF b = 0 THEN a ELSE GCD(b, a % b)

\* The rational n/d (d # 0) in lowest terms with a positive denominator.
Rat(n, d) ==
    LET g == GCD(Abs(n), Abs(d))
        s == IF d < 0 THEN -1 ELSE 1
    IN  <<(s * n) \div g, (s * d) \div g>>

Zero == <<0, 1>>
One == <<1, 1>>
Int2Rat(n) == <<n, 1>>
\* Sums and products cancel common factors before they multiply, which
\* keeps the intermediate integers small; 0 and 1 are handled at once.
RAdd(x, y) ==
    IF x[1] = 0 THEN y
    ELSE IF y[1] = 0 THEN x
    ELSE IF x[2] = y[2] THEN Rat(x[1] + y[1], x[2])
    ELSE LET g == GCD(x[2], y[2])
         IN  Rat(x[1] * (y[2] \div g) + y[1] * (x[2] \div g), (x[2] \div g) * y[2])
RNeg(x) == <<-x[1], x[2]>>
RSub(x, y) == RAdd(x, RNeg(y))
RMul(x, y) ==
    IF x[1] = 0 \/ y[1] = 0 THEN <<0, 1>>
    ELSE IF x = <<1, 1>> THEN y
    ELSE IF y = <<1, 1>> THEN x
    ELSE LET g1 == GCD(Abs(x[1]), y[2])
             g2 == GCD(Abs(y[1]), x[2])
         IN  <<(x[1] \div g1) * (y[1] \div g2), (x[2] \div g2) * (y[2] \div g1)>>
\* Only used where y # 0: every division of the code is guarded in the model
\* by the test that makes Python raise ZeroDivisionError.
RDiv(x, y) == RMul(x, Rat(y[2], y[1]))
RLess(x, y) == x[1] * y[2] < y[1] * x[2]
RLeq(x, y) == x[1] * y[2] <= y[1] * x[2]

RECURSIVE IPow(_, _)
IPow(b, e) == IF e = 0 THEN 1 ELSE b * IPow(b, e - 1)

\* x ** e for an integer e >= 0.
RECURSIVE RPow(_, _)
RPow(x, e) == IF e = 0 THEN One ELSE RMul(x, RPow(x, e - 1))

\* Python's round(x) of a number: the nearest integer, a tie going to the
\* even one.
RRound(x) ==
    LET fl == x[1] \div x[2]
        twice == 2 * (x[1] - fl * x[2])
    IN  IF twice < x[2] THEN fl
        ELSE IF twice > x[2] THEN fl + 1
        ELSE IF fl % 2 = 0 THEN fl ELSE fl + 1

\* The sum of f[e] over the elements e of the finite set S.
RECURSIVE RSum(_, _)
RSum(S, f) ==
    IF S = {} THEN Zero
    ELSE LET e == CHOOSE x \in S : TRUE
         IN  RAdd(f[e], RSum(S \ {e}, f))

\* numpy.array(values): the table of the values of f, each computed once
\* when the table is built (the same function as f).
RECURSIVE array_of(_, _)
array_of(f, S) ==
    IF S = {} THEN <<>>
    ELSE LET e == CHOOSE x \in S : TRUE
         IN  (e :> f[e]) @@ array_of(f, S \ {e})
array(f) == array_of(f, DOMAIN f)

(* --------------------- the automaton (FiniteAutomata) ------------------ *)

\* An automaton as this file reads it: n states 0..n-1, an alphabet of k
\* letters 1..k, delta[q][a] the successor of q on letter a (deterministic
\* and total), a set of initial and a set of final states.
States(n) == 0 .. (n - 1)
Letters(k) == 1 .. k

\* The sets of initial states: every nonempty set of states.
Initials(n) == (SUBSET States(n)) \ {{}}

Automata ==
    UNION { UNION { [n : {n}, k : {k},
                     delta : [States(n) -> [Letters(k) -> States(n)]],
                     initials : Initials(n),
                     finals : SUBSET States(n)]
                   : k \in {j \in 1 .. MaxLetters : n * j <= MaxTable} }
            : n \in 1 .. MaxStates }

get_number_of_states(f) == f.n
get_alphabet(f) == Letters(f.k)
get_initials(f) == f.initials
get_finals(f) == f.finals
\* The pairs (successor, letter) of state q.
get_all_successors_with_letter(f, q) == { <<f.delta[q][a], a>> : a \in Letters(f.k) }

\* number_of_letters[p] after the loop over the successors of q: how many
\* letters lead from q to p (a defaultdict(int): 0 where none does).
number_of_letters(f, q) ==
    array([p \in States(f.n) |->
        Cardinality({s \in get_all_successors_with_letter(f, q) : s[1] = p})])

Min(S) == CHOOSE x \in S : \A y \in S : x <= y

(* ------------------------------ Matrix --------------------------------- *)

\* A product taken entry by entry (before * first) instead of numpy.matmul.
matmul_elementwise(a, b, n) ==
    array([r \in States(n) |-> array([c \in States(n) |-> RMul(a[r][c], b[r][c])])])

\* numpy.matmul of two square matrices of dimension n.
matmul(a, b, n) ==
    array([r \in States(n) |-> array([c \in States(n) |->
        RSum(States(n), [m \in States(n) |-> RMul(a[r][m], b[m][c])])])])

\* The initial matrix normalised by the dimension instead of the size of
\* the alphabet.
initial_matrix_by_dimension(f) ==
    array([i \in States(f.n) |->
        LET letters == number_of_letters(f, i)
        IN  array([j \in States(f.n) |-> Rat(letters[j], f.n)])])

\* Matrix.__initial_matrix: the matrix of word length 1.
initial_matrix(f) ==
    LET size_of_alphabet == Cardinality(get_alphabet(f))
    IN  array([i \in States(f.n) |->
            LET letters == number_of_letters(f, i)
            IN  array([j \in States(f.n) |-> Rat(letters[j], size_of_alphabet)])])

\* Matrix.__init__: the cache holds the matrix of word length 1.
MatrixNew(f) == 1 :> initial_matrix(f)

None == [kind |-> "None"]

\* get_matrix without "self.matrices[i] = new_matrix": the new matrix is
\* returned and not cached.
RECURSIVE get_matrix_no_store(_, _, _)
get_matrix_no_store(f, ms, i) ==
    IF i \in DOMAIN ms
    THEN [matrices |-> ms, kind |-> "matrix", val |-> ms[i], branch |-> "cached"]
    ELSE IF (i - 1) \in DOMAIN ms
    THEN [matrices |-> ms, kind |-> "matrix", val |-> matmul(ms[i - 1], ms[1], f.n),
          branch |-> "extended"]
    ELSE [matrices |-> get_matrix_no_store(f, ms, i - 1).matrices, kind |-> "None",
          val |-> None, branch |-> "recursed"]

\* "self.matrices[i] = new_matrix; return new_matrix".
store_new_matrix(ms, i, new_matrix) ==
    [matrices |-> ms @@ (i :> new_matrix), kind |-> "matrix", val |-> new_matrix,
     branch |-> "extended"]

\* Matrix.get_matrix(i) on the cache ms (i >= 1): the cache afterwards,
\* what the call returns and the branch of the if it took.  The last branch calls get_matrix(i - 1), drops
\* its value and falls off the end of the function: it returns None.
RECURSIVE get_matrix(_, _, _)
get_matrix(f, ms, i) ==
    IF i \in DOMAIN ms
    THEN [matrices |-> ms, kind |-> "matrix", val |-> ms[i], branch |-> "cached"]
    ELSE IF (i - 1) \in DOMAIN ms
    THEN store_new_matrix(ms, i, matmul(ms[i - 1], ms[1], f.n))
    ELSE [matrices |-> get_matrix(f, ms, i - 1).matrices, kind |-> "None", val |-> None,
          branch |-> "recursed"]

\* The two loops of get_share over what get_matrix returned (g).
sum_of_entries(f, g) ==
    LET pairs == get_initials(f) \X get_finals(f)
    IN  IF g.kind = "None" /\ pairs # {}
        THEN [matrices |-> g.matrices, kind |-> "TypeError", val |-> None,
              branch |-> g.branch]
        ELSE [matrices |-> g.matrices, kind |-> "value",
              val |-> RSum(pairs, [p \in pairs |-> g.val[p[1]][p[2]]]),
              branch |-> g.branch]

\* Matrix.get_share(i): 0 below 1; else the sum of matrix[initial][final].
\* With matrix = None the first subscript raises TypeError; when there is
\* no (initial, final) pair the loops run no body and the call returns 0.
get_share(f, ms, i) ==
    IF i < 1
    THEN [matrices |-> ms, kind |-> "value", val |-> Zero, branch |-> "none"]
    ELSE sum_of_entries(f, get_matrix(f, ms, i))

\* Before any call: no call has returned, no engine call was made.
NoCall == [op |-> "none", i |-> 0, pre |-> 0, kind |-> "None", val |-> None]
NoArgs == [eta |-> 0, lam |-> Zero]
NoResult == [op |-> "none"]

(* ----------------------- __explicit_solution --------------------------- *)

\* The sequence s without its j-th element.
Without(s, j) == SubSeq(s, 1, j - 1) \o SubSeq(s, j + 1, Len(s))

\* The determinant of the square matrix a restricted to the rows and the
\* columns listed, by expansion along the first row listed.
RECURSIVE Det(_, _, _)
Det(a, rows, cols) ==
    IF rows = <<>> THEN One
    ELSE RSum(1 .. Len(cols),
              [j \in 1 .. Len(cols) |->
                  RMul(Int2Rat(IF j % 2 = 1 THEN 1 ELSE -1),
                       RMul(a[rows[1]][cols[j]], Det(a, Tail(rows), Without(cols, j))))])

\* numpy.linalg.solve(a, b) for an n x n system: LinAlgError when a is
\* singular, else the one solution (Cramer's rule).
solve(a, b, n) ==
    LET idx == [j \in 1 .. n |-> j - 1]
        d == Det(a, idx, idx)
    IN  IF d = Zero THEN [kind |-> "LinAlgError", val |-> None]
        ELSE [kind |-> "value",
              val |-> array([c \in States(n) |->
                  RDiv(Det([r \in States(n) |-> [x \in States(n) |->
                               IF x = c THEN b[r] ELSE a[r][x]]], idx, idx), d)])]

\* w_one_trans without the decay rate: 1 / len(alphabet).
w_one_trans_without_lam(f, lam) == RDiv(One, Int2Rat(Cardinality(get_alphabet(f))))

\* w_one_trans = lam / len(alphabet).
w_one_trans(f, lam) == RDiv(lam, Int2Rat(Cardinality(get_alphabet(f))))

\* The coefficient matrix ls of the linear system.
ls(f, lam) ==
    LET w == w_one_trans(f, lam)
    IN  array([q \in States(f.n) |->
            LET letters == number_of_letters(f, q)
            IN  array([p \in States(f.n) |->
                    IF p = q
                    THEN RSub(RMul(Int2Rat(letters[p]), w), One)
                    ELSE RMul(Int2Rat(letters[p]), w)])])

\* The right-hand side sol_vec.
sol_vec(f, lam) ==
    array([q \in States(f.n) |->
        IF q \in get_finals(f) THEN RSub(Zero, RSub(One, lam)) ELSE Zero])

\* __explicit_solution with a check of lam in front of the computation.
explicit_solution_validating(f, lam) ==
    IF ~(RLess(Zero, lam) /\ RLeq(lam, One))
    THEN [kind |-> "PreconditionViolation", val |-> None]
    ELSE LET res == solve(ls(f, lam), sol_vec(f, lam), f.n)
         IN  IF res.kind = "value"
             THEN [kind |-> "value", val |-> res.val[Min(get_initials(f))]]
             ELSE res

\* __explicit_solution(dfa, lam): the solution at the least initial state.
explicit_solution(f, lam) ==
    LET res == solve(ls(f, lam), sol_vec(f, lam), f.n)
    IN  IF res.kind = "value"
        THEN [kind |-> "value", val |-> res.val[Min(get_initials(f))]]
        ELSE res

(* ----------------------- __weight_with_matrix -------------------------- *)

Error(kind) == [kind |-> kind, val |-> None]
Value(v) == [kind |-> "value", val |-> v]

\* max_words_in_c_p = (1 - k ** (eta + 1)) / (1 - k), for eta >= -1.
max_words_in_c_p(f, eta) ==
    LET k == Cardinality(get_alphabet(f))
    IN  IF 1 - k = 0 THEN Error("ZeroDivisionError")
        ELSE Value(Rat(1 - IPow(k, eta + 1), 1 - k))

\* sum_w_c_p = 1 - lam ** (eta + 1).
sum_w_c_p(eta, lam) == RSub(One, RPow(lam, eta + 1))

\* w_of_one_word_c_p = sum_w_c_p / max_words_in_c_p.
w_of_one_word_c_p(f, eta, lam) ==
    LET c == max_words_in_c_p(f, eta)
    IN  IF c.kind # "value" THEN c
        ELSE IF c.val = Zero THEN Error("ZeroDivisionError")
        ELSE Value(RDiv(sum_w_c_p(eta, lam), c.val))

\* The loop "for i in range(lo, hi)" over get_share(i) on one Matrix: st
\* holds the cache, the sum so far, the requests made (length and branch)
\* and the error that ended the loop, if any.  term(i, share) is what one
\* round adds.
PlateauTerm(f, u, i, share) ==
    RMul(u, Int2Rat(RRound(RMul(share, Int2Rat(IPow(Cardinality(get_alphabet(f)), i))))))
TailTerm(lam, i, share) == RMul(share, RPow(lam, i + 1))

\* One round of the loop: g is what get_share(i) did.
ShareRound(f, st, i, plateau, u, lam, g) ==
    IF g.kind # "value"
    THEN [st EXCEPT !.matrices = g.matrices,
                    !.requests = Append(st.requests, <<i, g.branch>>),
                    !.kind = g.kind]
    ELSE [st EXCEPT !.matrices = g.matrices,
                    !.requests = Append(st.requests, <<i, g.branch>>),
                    !.val = RAdd(st.val,
                                 IF plateau THEN PlateauTerm(f, u, i, g.val)
                                 ELSE TailTerm(lam, i, g.val))]

RECURSIVE ShareLoop(_, _, _, _, _, _, _)
ShareLoop(f, st, i, hi, plateau, u, lam) ==
    IF i >= hi \/ st.kind # "value" THEN st
    ELSE ShareLoop(f, ShareRound(f, st, i, plateau, u, lam, get_share(f, st.matrices, i)),
                   i + 1, hi, plateau, u, lam)

\* "matrix = Matrix(dfa)" and the empty word: weight starts at u, the
\* weight of one word of the plateau, when an initial state is final.
empty_word(f, u) ==
    [matrices |-> MatrixNew(f), kind |-> u.kind, requests |-> <<>>,
     val |-> IF u.kind = "value" /\ get_initials(f) \cap get_finals(f) # {}
             THEN u.val ELSE Zero]

\* The end of __weight_with_matrix: the tail scaled by (1 - lam) / lam
\* and added to the plateau.
scaled_sum(lam, c, plateau, tail) ==
    [C |-> c, requests |-> tail.requests,
     kind |-> IF tail.kind # "value" THEN tail.kind
              ELSE IF lam = Zero THEN "ZeroDivisionError"
              ELSE "value",
     val |-> IF tail.kind = "value" /\ lam # Zero
             THEN RAdd(plateau.val, RMul(tail.val, RDiv(RSub(One, lam), lam)))
             ELSE None]

\* The loop over range(eta + 1, up_to) after the plateau, on the same
\* Matrix.
tail_loop(f, eta, lam, up_to, c, u, plateau) ==
    scaled_sum(lam, c, plateau,
               ShareLoop(f, [plateau EXCEPT !.val = Zero], eta + 1, up_to, FALSE, u.val, lam))

\* The loop over range(1, eta + 1), with the word count c and the weight
\* u of one word of the plateau.
plateau_loop(f, eta, lam, up_to, c, u) ==
    tail_loop(f, eta, lam, up_to, c, u,
              ShareLoop(f, empty_word(f, u), 1, eta + 1, TRUE, u.val, lam))

\* __weight_with_matrix(dfa, eta, lam, up_to), for eta >= -1: the result,
\* with the word count C and the requests made to the fresh Matrix.
weight_with_matrix(f, eta, lam, up_to) ==
    plateau_loop(f, eta, lam, up_to, max_words_in_c_p(f, eta), w_of_one_word_c_p(f, eta, lam))

(* ------------------------------ weight --------------------------------- *)

\* "w + e1 - e2" of weight, the three calls made in this order: the first
\* exception ends the call.
weight_sum(w, e1, e2) ==
    IF w.kind # "value"
    THEN [kind |-> w.kind, val |-> None, entered |-> <<"explicit_solution">>,
          estimators |-> <<>>]
    ELSE IF e1.kind # "value"
    THEN [kind |-> e1.kind, val |-> None,
          entered |-> <<"explicit_solution", "weight_with_matrix">>,
          estimators |-> <<e1>>]
    ELSE IF e2.kind # "value"
    THEN [kind |-> e2.kind, val |-> None,
          entered |-> <<"explicit_solution", "weight_with_matrix", "weight_with_matrix">>,
          estimators |-> <<e1, e2>>]
    ELSE [kind |-> "value", val |-> RSub(RAdd(w.val, e1.val), e2.val),
          entered |-> <<"explicit_solution", "weight_with_matrix", "weight_with_matrix">>,
          estimators |-> <<e1, e2>>]

\* weight(dfa, eta, lam), for eta >= -1: the value or the exception, the
\* helpers entered in order, and what each estimator call did.
weight(f, eta, lam) ==
    weight_sum(explicit_solution(f, lam),
               weight_with_matrix(f, eta, lam, 0),
               weight_with_matrix(f, 0, lam, eta + 1))

(* ---------------------------- weight_diff ------------------------------ *)

\* The states reachable from the set S.
RECURSIVE Reach(_, _)
Reach(f, S) ==
    LET T == S \cup { f.delta[q][a] : q \in S, a \in Letters(f.k) }
    IN  IF T = S THEN S ELSE Reach(f, T)

\* FiniteAutomata.is_empty(): the automaton accepts no word.
is_empty(f) == Reach(f, get_initials(f)) \cap get_finals(f) = {}

\* "return weight_a, weight_b, weight_a + weight_b": a and b are the two
\* weights (0 where weight was not called, as call_a and call_b tell), the
\* first exception ends the call.
weights_of(call_a, call_b, a, b) ==
    IF a.kind # "value"
    THEN [kind |-> a.kind, val |-> None, invoked |-> <<1>>]
    ELSE IF b.kind # "value"
    THEN [kind |-> b.kind, val |-> None,
          invoked |-> (IF call_a THEN <<1>> ELSE <<>>) \o <<2>>]
    ELSE [kind |-> "value", val |-> <<a.val, b.val, RAdd(a.val, b.val)>>,
          invoked |-> (IF call_a THEN <<1>> ELSE <<>>) \o (IF call_b THEN <<2>> ELSE <<>>)]

\* weight_diff without the is_empty tests: weight is invoked on both.
weight_diff_unguarded(sym_diff, eta, lam) ==
    weights_of(TRUE, TRUE, weight(sym_diff[1], eta, lam), weight(sym_diff[2], eta, lam))

\* weight_diff on the pair sym_diff the automaton collaborator returned:
\* the triple or the exception, and the automata (1 or 2) weight was
\* invoked on.
weight_diff(sym_diff, eta, lam) ==
    weights_of(~is_empty(sym_diff[1]), ~is_empty(sym_diff[2]),
               IF is_empty(sym_diff[1]) THEN Value(Zero) ELSE weight(sym_diff[1], eta, lam),
               IF is_empty(sym_diff[2]) THEN Value(Zero) ELSE weight(sym_diff[2], eta, lam))

(* --------------------------- the engine client ------------------------- *)

\* The decay rates tried: 1/3, 1/2 and 1 of the valid range (0, 1], and
\* -1/2, 0 and 2 outside it.
Lams == { <<-1, 2>>, Zero, <<1, 3>>, <<1, 2>>, One, <<2, 1>> }
\* The decay rates tried with weight_diff.
DiffLams == { Zero, <<1, 2>>, One }
\* The thresholds tried: the valid ones, and -1.
Etas == -1 .. MaxEta

\* An automaton and the arguments of one call of weight.
InitWeight ==
    /\ fa \in Automata
    /\ matrices = MatrixNew(fa)
    /\ ret = NoCall
    /\ args \in [eta : Etas, lam : Lams]
    /\ wres = NoResult

\* The call weight(fa, eta, lam).
Weight ==
    /\ wres.op = "none"
    /\ wres' = [op |-> "weight", res |-> weight(fa, args.eta, args.lam)]
    /\ UNCHANGED <<fa, matrices, ret, args>>

SpecWeight == InitWeight /\ [][Weight]_vars

\* An automaton and the arguments of one call of weight_diff.
InitDiff ==
    /\ fa \in Automata
    /\ matrices = MatrixNew(fa)
    /\ ret = NoCall
    /\ args \in [eta : Etas, lam : DiffLams]
    /\ wres = NoResult

\* The call weight_diff(fa_a, fa_b, eta, lam) where the collaborator's
\* subsets_symmetric_difference returns fa (the words only in fa_a) and an
\* automaton of the same transitions with the final states finals_b (the
\* words only in fa_b); the two languages are disjoint.
WeightDiff(finals_b) ==
    LET sym_diff == <<fa, [fa EXCEPT !.finals = finals_b]>>
    IN  /\ wres.op = "none"
        /\ wres' = [op |-> "weight_diff", sym_diff |-> sym_diff,
                    res |-> weight_diff(sym_diff, args.eta, args.lam)]
        /\ UNCHANGED <<fa, matrices, ret, args>>

NextDiff == \E finals_b \in SUBSET (States(fa.n) \ fa.finals) : WeightDiff(finals_b)

SpecDiff == InitDiff /\ [][NextDiff]_vars

(* --------------------------- the Matrix client ------------------------- *)


\* A Matrix instance right after Matrix(fa), for any automaton.
Init ==
    /\ fa \in Automata
    /\ matrices = MatrixNew(fa)
    /\ ret = NoCall
    /\ args = NoArgs
    /\ wres = NoResult

\* A call get_matrix(i) from outside; pre is the largest cached length
\* before the call.
GetMatrix(i) ==
    LET g == get_matrix(fa, matrices, i)
    IN  /\ matrices' = g.matrices
        /\ ret' = [op |-> "get_matrix", i |-> i, pre |-> Cardinality(DOMAIN matrices),
                   kind |-> g.kind, val |-> g.val]
        /\ UNCHANGED <<fa, args, wres>>

\* A call get_share(i) from outside.
GetShare(i) ==
    LET g == get_share(fa, matrices, i)
    IN  /\ matrices' = g.matrices
        /\ ret' = [op |-> "get_share", i |-> i, pre |-> Cardinality(DOMAIN matrices),
                   kind |-> g.kind, val |-> g.val]
        /\ UNCHANGED <<fa, args, wres>>

Next ==
    \/ \E i \in 1 .. MaxLen : GetMatrix(i)
    \/ \E i \in 0 .. MaxLen : GetShare(i)

Spec == Init /\ [][Next]_vars

(* ------------------- reference values for the claims ------------------- *)

\* The state the automaton f is in after reading the word w from state q.
RECURSIVE Run(_, _, _)
Run(f, q, w) == IF w = <<>> THEN q ELSE Run(f, f.delta[q][Head(w)], Tail(w))

\* How many of the k^i words of length i the automaton accepts from its
\* least initial state, by running every word.
AcceptedWords(f, i) ==
    Cardinality({w \in [1 .. i -> Letters(f.k)] : Run(f, Min(f.initials), w) \in f.finals})

\* M^i from what it means, without a matrix product: the entry (q, p) is
\* the share of the k^i words of length i that lead from q to p.
PowerByWords(f, i) ==
    [q \in States(f.n) |-> [p \in States(f.n) |->
        Rat(Cardinality({w \in [1 .. i -> Letters(f.k)] : Run(f, q, w) = p}),
            IPow(f.k, i))]]

\* The number of words of length 0..eta over k letters.
RECURSIVE SumPow(_, _)
SumPow(k, eta) == IF eta < 0 THEN 0 ELSE IPow(k, eta) + SumPow(k, eta - 1)

IsDFA(f) == Cardinality(f.initials) = 1
ValidLam(lam) == RLess(Zero, lam) /\ RLeq(lam, One)
ValidEta(eta) == eta >= 0

(* ------------------------ claims on the Matrix ------------------------- *)

\* C1: for every i >= 1 and every state of the cache, get_matrix(i) returns
\* the i-th power of the one-step matrix, also when neither i nor i-1 is
\* cached.  (Violated: with a gap the call returns None.)
C1_GetMatrixReturnsPower ==
    ret.op = "get_matrix" =>
        /\ ret.kind = "matrix"
        /\ ret.val = PowerByWords(fa, ret.i)

\* C2: for a DFA and i >= 1, get_share(i) in any cache state returns a
\* value in [0, 1] and never fails.  (Violated: with a gap get_matrix
\* hands None to get_share, which raises TypeError.)
C2_GetShareIsProbability ==
    (ret.op = "get_share" /\ ret.i >= 1 /\ IsDFA(fa)) =>
        /\ ret.kind = "value"
        /\ RLeq(Zero, ret.val)
        /\ RLeq(ret.val, One)

\* C8, state part: the cached lengths are 1..m for an m >= 1 and the entry
\* of length j is M^j.
CacheIsPrefixOfPowers ==
    /\ DOMAIN matrices = 1 .. Cardinality(DOMAIN matrices)
    /\ 1 \in DOMAIN matrices
    /\ \A j \in DOMAIN matrices : matrices[j] = PowerByWords(fa, j)

\* C8, step part: a call neither removes nor overwrites an entry.
CacheOnlyGrows ==
    \A j \in DOMAIN matrices : j \in DOMAIN matrices' /\ matrices'[j] = matrices[j]

\* C8: in every reachable state of a Matrix instance the cache holds exactly
\* the powers M^1..M^m, and every call keeps the entries it found.
C8_CacheInvariant == [](CacheIsPrefixOfPowers) /\ [][CacheOnlyGrows]_vars

\* C8 witness: a call made across a gap (neither i nor i-1 cached) has
\* returned and the cache has grown by the one entry that follows the
\* last cached length.
C8_Witness ==
    /\ ret.op \in {"get_matrix", "get_share"}
    /\ ret.i > ret.pre + 1
    /\ Cardinality(DOMAIN matrices) = ret.pre + 1
    /\ fa.n >= 2

\* C9: for a total automaton with one initial state and lengths asked for
\* in increasing order (i is cached or follows the last cached length),
\* get_share(i) * k^i is the number of accepted words of length i, and so
\* is the rounded count the plateau loop adds.
C9_ShareCountsAcceptedWords ==
    (ret.op = "get_share" /\ ret.i >= 1 /\ ret.i <= ret.pre + 1 /\ IsDFA(fa)) =>
        /\ ret.kind = "value"
        /\ RMul(ret.val, Int2Rat(IPow(fa.k, ret.i))) = Int2Rat(AcceptedWords(fa, ret.i))
        /\ RRound(RMul(ret.val, Int2Rat(IPow(fa.k, ret.i)))) = AcceptedWords(fa, ret.i)

\* C9 witness: get_share(3), asked after 1 and 2, on a two-letter automaton
\* that accepts some but not all words of length 3.
C9_Witness ==
    /\ ret.op = "get_share" /\ ret.i = 3 /\ ret.pre = 2 /\ IsDFA(fa)
    /\ fa.k = 2
    /\ AcceptedWords(fa, 3) \in 1 .. 7

(* ------------------------- claims on the engine ------------------------ *)

Range(s) == { s[j] : j \in DOMAIN s }

\* C3: weight_diff returns (w_a, w_b, w_a + w_b); a difference automaton
\* that reports is_empty() contributes exactly 0 and weight is not invoked
\* on it; with both empty the result is (0, 0, 0) for every eta and lam.
C3_WeightDiffSkipsEmpty ==
    wres.op = "weight_diff" =>
        LET r == wres.res
            empty_a == is_empty(wres.sym_diff[1])
            empty_b == is_empty(wres.sym_diff[2])
        IN  /\ empty_a => 1 \notin Range(r.invoked)
            /\ empty_b => 2 \notin Range(r.invoked)
            /\ r.kind = "value" =>
                /\ r.val[3] = RAdd(r.val[1], r.val[2])
                /\ empty_a => r.val[1] = Zero
                /\ empty_b => r.val[2] = Zero
                /\ ~empty_a => 1 \in Range(r.invoked)
                /\ ~empty_b => 2 \in Range(r.invoked)
            /\ (empty_a /\ empty_b) => (r.kind = "value" /\ r.val = <<Zero, Zero, Zero>>)

\* C3 witness: weight_diff has returned with the first difference empty and
\* the second not, a nonzero weight for the second.
C3_Witness ==
    /\ wres.op = "weight_diff"
    /\ is_empty(wres.sym_diff[1]) /\ ~is_empty(wres.sym_diff[2])
    /\ wres.res.kind = "value"
    /\ wres.res.val[1] = Zero /\ wres.res.val[2] # Zero
    /\ wres.res.invoked = <<2>>
    /\ ValidLam(args.lam) /\ ValidEta(args.eta)

InvalidArgs == ~ValidLam(args.lam) \/ ~ValidEta(args.eta)

\* C4 as claimed: weight rejects lam <= 0, lam > 1 or eta < 0 as a
\* precondition violation before any computation: no helper is entered and
\* no number is returned.
C4_RejectsInvalidArguments ==
    (wres.op = "weight" /\ InvalidArgs) =>
        /\ wres.res.kind = "PreconditionViolation"
        /\ wres.res.entered = <<>>

\* C4 as amended: weight checks nothing.  A call with lam <= 0, lam > 1 or
\* eta < 0 enters the exact solver first; it ends with a number or with an
\* arithmetic error of the computation (a singular system in the solver, a
\* division by zero in the estimator after the solver has returned), and
\* with lam > 1, eta >= 0 and at least two letters a division by zero
\* does not occur.
C4_NoValidation ==
    (wres.op = "weight" /\ InvalidArgs) =>
        /\ wres.res.entered # <<>>
        /\ wres.res.entered[1] = "explicit_solution"
        /\ wres.res.kind \in {"value", "LinAlgError", "ZeroDivisionError"}
        /\ wres.res.kind = "LinAlgError" <=> Len(wres.res.entered) = 1
        /\ (RLess(One, args.lam) /\ ValidEta(args.eta) /\ fa.k >= 2)
               => wres.res.kind # "ZeroDivisionError"

\* C4 witness: weight called with lam = 2 has returned a number.
C4_Witness ==
    /\ wres.op = "weight" /\ args.lam = <<2, 1>> /\ args.eta = 1
    /\ wres.res.kind = "value"
    /\ fa.n = 2

\* C5 as claimed: for every valid decay rate, lam = 1 included, the linear
\* system has a unique solution (no singular-system error).
C5_NonsingularUpToOne ==
    (wres.op = "weight" /\ ValidLam(args.lam) /\ ValidEta(args.eta))
        => wres.res.kind # "LinAlgError"

\* C5 as amended: for every total automaton the system has a unique
\* solution when 0 < lam < 1, and is singular when lam = 1.
C5_NonsingularBelowOne ==
    wres.op = "weight" =>
        /\ (RLess(Zero, args.lam) /\ RLess(args.lam, One)) => wres.res.kind # "LinAlgError"
        /\ args.lam = One => wres.res.kind = "LinAlgError"

\* C5 witness: weight with lam = 1/3 has returned a number for a two-state
\* automaton whose states lead to each other.
C5_Witness ==
    /\ wres.op = "weight" /\ args.lam = <<1, 3>> /\ ValidEta(args.eta)
    /\ fa.n = 2 /\ fa.k = 2
    /\ fa.delta[0][1] = 1 /\ fa.delta[1][1] = 0
    /\ wres.res.kind = "value"

\* C6: for the one-state automaton whose state is initial and final, weight
\* is 1 for every eta >= 0, every decay rate and every alphabet size
\* k >= 1.  (Stated for 0 < lam < 1, where the solver has a solution;
\* violated for k = 1, where the estimator divides by 1 - k = 0.)
C6_AllAcceptingWeighsOne ==
    (/\ wres.op = "weight"
     /\ fa.n = 1 /\ fa.finals = {0}
     /\ ValidEta(args.eta)
     /\ RLess(Zero, args.lam) /\ RLess(args.lam, One)) =>
        (wres.res.kind = "value" /\ wres.res.val = One)

\* C7: for every alphabet size k >= 1 and every eta >= 0 the estimator's
\* word count C is the sum of k^i for i = 0..eta, and computing C and the
\* per-word weight u never fails.  (Violated for k = 1: division by zero.)
C7_WordCountIsGeometricSum ==
    (wres.op = "weight" /\ ValidEta(args.eta) /\ ValidLam(args.lam)
        /\ Len(wres.res.entered) >= 2) =>
        /\ wres.res.estimators[1].C = Value(Int2Rat(SumPow(fa.k, args.eta)))
        /\ w_of_one_word_c_p(fa, args.eta, args.lam).kind = "value"

\* C10: during weight(dfa, eta, lam) with eta >= 0 each of the two fresh
\* Matrix caches is asked for the lengths 1, 2, 3, ... in this order with
\* no gap: no request takes the recursing branch of get_matrix, no
\* get_share call is handed None, and a call that returns has asked each
\* cache for exactly 1..eta.
C10_RequestsInOrder ==
    (wres.op = "weight" /\ ValidEta(args.eta)) =>
        /\ wres.res.kind # "TypeError"
        /\ \A e \in DOMAIN wres.res.estimators :
            LET req == wres.res.estimators[e].requests
            IN  /\ \A j \in DOMAIN req : req[j][1] = j /\ req[j][2] \in {"cached", "extended"}
                /\ Len(req) <= args.eta
                /\ wres.res.estimators[e].kind = "value" => Len(req) = args.eta
        /\ wres.res.kind = "value" => Len(wres.res.estimators) = 2

\* C10 witness: weight with eta = 3 has returned a number, each cache having
\* been asked for 1, 2 and 3.
C10_Witness ==
    /\ wres.op = "weight" /\ args.eta = 3 /\ wres.res.kind = "value"
    /\ ValidLam(args.lam)
    /\ Len(wres.res.estimators[1].requests) = 3
    /\ Len(wres.res.estimators[2].requests) = 3
    /\ fa.initials \cap fa.finals = {} /\ fa.finals # {}

====
